---- MODULE Spec2Model ----
(***************************************************************************)
(* adenine: expansion of a configuration into pipelines                    *)
(* (adenine/core/define_pipeline.py) and their evaluation by the           *)
(* master/slave distributor (adenine/core/job_distribution.py).            *)
(*                                                                         *)
(* Python values are modelled as follows.                                  *)
(*   dict            a sequence of [k, v] records in iteration order       *)
(*   list            a sequence                                            *)
(*   str, number     a string ("3", "auto", "ward")                        *)
(*   object          [cls, kw, est, id]: class name, constructor keywords, *)
(*                   wrapped estimator (<<>> or <<object>>), identity      *)
(*   step content    [flag, hasArgs, args]: content[0], len(content) > 1,  *)
(*                   content[1]                                            *)
(***************************************************************************)
EXTENDS Integers, Sequences, FiniteSets, TLC

\* ------------------------------------------------------------------ bounds

\* Largest MPI world size explored (rank 0 plus MaxProcs - 1 slaves).
MaxProcs == 4
\* Largest number of pipelines handed to the distributor.
MaxJobs == 4
\* Largest number of imputing replacements in a configuration.
MaxImpute == 2
\* Largest number of preprocessing keys switched on.
MaxPre == 4
\* Largest number of dimensionality-reduction keys switched on.
MaxDim == 3
\* Largest number of clustering keys switched on.
MaxClu == 4
\* Largest number of pipelines and largest world size when stages raise.
MaxEvalJobs == 2
MaxEvalProcs == 2
\* Largest number of samples handed to the cluster-count heuristic.
MaxSamples == 335
\* Largest number of samples handed to the silhouette scorer.
MaxScored == 3
\* Largest number of rows of the data a selector is fitted on.
MaxFitSamples == 150
\* Largest number of successive fits of one selector.
MaxFits == 5
\* The preference grids lie in -MaxPreference..0.
MaxPreference == 2

\* ------------------------------------------------------- program constants

DO_WORK == 100
EXIT == 200
max_n_pipes == 100

\* ------------------------------------------------------------ small helpers

Min(a, b) == IF a < b THEN a ELSE b

Max(a, b) == IF a > b THEN a ELSE b

KV(k, v) == [k |-> k, v |-> v]

\* d.get(k, default)
DictGet(d, k, default) ==
    IF \E n \in 1..Len(d) : d[n].k = k
    THEN d[CHOOSE n \in 1..Len(d) : d[n].k = k].v
    ELSE default

\* d.pop(k, '') : the dictionary without k
DictPop(d, k) ==
    LET Keep(e) == e.k # k IN SelectSeq(d, Keep)

\* d[k] = v where d.setdefault(k, v) was meant.
SetDefaultOverwrite(d, k, v) ==
    Append(DictPop(d, k), KV(k, v))

\* d.setdefault(k, v) : the dictionary afterwards
SetDefault(d, k, v) ==
    IF \E n \in 1..Len(d) : d[n].k = k THEN d ELSE Append(d, KV(k, v))

\* str.lower() on the algorithm keys that occur in configurations
Lower(s) ==
    CASE s = "None" -> "none"
      [] s = "Recenter" -> "recenter"
      [] s = "Standardize" -> "standardize"
      [] s = "Normalize" -> "normalize"
      [] s = "MinMax" -> "minmax"
      [] s = "Whiten" -> "whiten"
      [] s = "PCA" -> "pca"
      [] s = "KernelPCA" -> "kernelpca"
      [] s = "LLE" -> "lle"
      [] s = "MDS" -> "mds"
      [] s = "Autoencoder" -> "autoencoder"
      [] s = "KMeans" -> "kmeans"
      [] s = "AP" -> "ap"
      [] s = "MS" -> "ms"
      [] s = "Spectral" -> "spectral"
      [] s = "Hierarchical" -> "hierarchical"
      [] s = "DBSCAN" -> "dbscan"
      [] s = "STANDARDIZE" -> "standardize"
      [] s = "Pca" -> "pca"
      [] s = "kMeans" -> "kmeans"
      [] s = "Birch" -> "birch"
      [] OTHER -> s

Digit(d) ==
    CASE d = 0 -> "0" [] d = 1 -> "1" [] d = 2 -> "2" [] d = 3 -> "3"
      [] d = 4 -> "4" [] d = 5 -> "5" [] d = 6 -> "6" [] d = 7 -> "7"
      [] d = 8 -> "8" [] d = 9 -> "9"

\* str(i) for i >= 0
RECURSIVE Str(_)
Str(i) == IF i < 10 THEN Digit(i) ELSE Str(i \div 10) \o Digit(i % 10)

\* A freshly constructed object; its identity is set when it is stored.
New(cls, kw) == [cls |-> cls, kw |-> kw, est |-> <<>>, id |-> <<>>]

\* The (label, object) tuple with the object's identity: the n-th object
\* that parse_steps appended to the list `lst`.
Stored(tpl, lst, n) == <<tpl[1], [tpl[2] EXCEPT !.id = <<lst, n>>]>>

\* A scalar and a list as step arguments; ensure_list wraps the scalar.
Scalar(v) == [isList |-> FALSE, items |-> <<v>>]

List(vs) == [isList |-> TRUE, items |-> vs]

ensure_list(x) == x.items

\* itertools.product of a list of lists: lexicographic, first list major.
RECURSIVE Product(_)
Product(lists) ==
    IF lists = <<>> THEN << <<>> >>
    ELSE LET h == Head(lists)
             rest == Product(Tail(lists))
             m == Len(rest)
         IN  [n \in 1..(Len(h) * m) |->
                 <<h[((n - 1) \div m) + 1]>> \o rest[((n - 1) % m) + 1]]

\* modified_cartesian(*lists): one entry per combination of parameter values.
modified_cartesian(lists) == Product(lists)

\* modified_cartesian(i, pp, dr, cl, pipes_mode=True): an empty imputing
\* list is left out of the product instead of emptying it.
modified_cartesian_pipes(i, pp, dr, cl) ==
    Product(IF i = <<>> THEN <<pp, dr, cl>> ELSE <<i, pp, dr, cl>>)

\* -------------------------------------------------------------- extensions

\* The largest r with r * r <= n.
ISqrt(n) == CHOOSE r \in 0..n : r * r <= n /\ (r + 1) * (r + 1) > n

\* np.unique of a set of integers: the sorted array.
RECURSIVE Sorted(_)
Sorted(S) ==
    IF S = {} THEN <<>>
    ELSE LET m == CHOOSE x \in S : \A y \in S : x <= y
         IN  <<m>> \o Sorted(S \ {m})

\* np.arange(a, b)
Arange(a, b) == [j \in 1..(IF b > a THEN b - a ELSE 0) |-> a + j - 1]

\* The integers int() can make of the 30 samples of
\* np.logspace(log10(2), log10(sqrt(n)), 30): they lie between the two end
\* points, each of which floating point may put just below its exact value.
LogScaleValues(n) == Min(1, ISqrt(n))..Max(2, ISqrt(n) + 1)

\* GridSearchCV._sqrtn_heuristic(_n) with self.cv = cv, for the array
\* np.unique made of the log scale.
sqrtn_heuristic(_n, cv, logscale) ==
    LET n == _n \div cv
        InRange(k) == k >= 2 /\ k <= n - 1
        krange == SelectSeq(logscale, InRange)
    IN  IF Len(krange) < n THEN Arange(2, n) ELSE krange

\* A scorer that takes a single label for a labelling.
silhouette_scoreInclusive(estimator, n_samples) ==
    IF estimator.hasAffinity /\ estimator.affinity = "precomputed"
    THEN [exc |-> "", value |-> "nan", predicted |-> FALSE, log |-> <<>>]
    ELSE LET _y == estimator.predict
             n_labels == Cardinality({_y[j] : j \in 1..Len(_y)})
         IN  IF 1 <= n_labels /\ n_labels < n_samples
             THEN [exc |-> "", value |-> "sil", predicted |-> TRUE,
                   log |-> <<>>]
             ELSE [exc |-> "", value |-> "nan", predicted |-> TRUE,
                   log |-> << [level |-> "WARNING",
                               msg |-> "silhouette_score() returned NaN",
                               arg |-> <<Str(n_labels)>>] >>]

\* silhouette_score(estimator, X) with X.shape[0] = n_samples; "sil" stands
\* for the value of sklearn's silhouette_score(X, _y), "nan" for np.nan.
silhouette_score(estimator, n_samples) ==
    IF estimator.hasAffinity /\ estimator.affinity = "precomputed"
    THEN [exc |-> "", value |-> "nan", predicted |-> FALSE, log |-> <<>>]
    ELSE LET _y == estimator.predict
             n_labels == Cardinality({_y[j] : j \in 1..Len(_y)})
         IN  IF 1 < n_labels /\ n_labels < n_samples
             THEN [exc |-> "", value |-> "sil", predicted |-> TRUE,
                   log |-> <<>>]
             ELSE [exc |-> "", value |-> "nan", predicted |-> TRUE,
                   log |-> << [level |-> "WARNING",
                               msg |-> "silhouette_score() returned NaN",
                               arg |-> <<Str(n_labels)>>] >>]

\* A guard that also halves at exactly five samples per fold.
DataPoorInclusive(n_samples, cv) == n_samples <= 5 * cv

\* X.shape[0] / np.float(self.cv) < 5, for self.cv > 0: the quotient of two
\* small integers is below 5 exactly when n_samples < 5 * cv.
DataPoor(n_samples, cv) == n_samples < 5 * cv

\* The log record of the halving (logging.info, lines 265-267).
HalvingRecord(cv) ==
    [level |-> "INFO", msg |-> "[GridSearchCV] Data Poor", arg |-> <<Str(cv)>>]

\* Lines 264-269 of GridSearchCV.fit: [exc, cv, log]. With self.cv = 0 the
\* division raises before anything is logged or assigned.
fit_guard(n_samples, cv) ==
    IF cv = 0
    THEN [exc |-> "ZeroDivisionError", cv |-> cv, log |-> <<>>]
    ELSE IF DataPoor(n_samples, cv)
         THEN [exc |-> "", cv |-> cv \div 2, log |-> <<HalvingRecord(cv)>>]
         ELSE [exc |-> "", cv |-> cv, log |-> <<>>]

\* param_grid = [] as parse_clustering passes it to the constructor.
EmptyGrid == [key |-> "", values |-> <<>>]

\* A fit that builds the grid before it corrects the number of splits.
fit_gridStale(self, n_samples, logscale, prefs, nan_raises) ==
    LET g == fit_guard(n_samples, self.cv)
        Stop(e, at, pg) ==
            [exc |-> e, at |-> at, cv |-> g.cv, param_grid |-> pg,
             log |-> g.log]
    IN  IF g.exc # "" THEN Stop(g.exc, "guard", self.param_grid)
        ELSE IF self.estimator = "KMeans"
        THEN Stop("", "",
                  [key |-> "n_clusters",
                   values |-> sqrtn_heuristic(n_samples, self.cv, logscale)])
        ELSE IF self.estimator = "AffinityPropagation"
        THEN Stop("", "", [key |-> "preference", values |-> prefs])
        ELSE Stop("", "", self.param_grid)

\* GridSearchCV.fit up to the call of the inherited fit (lines 264-278), for
\* X with n_samples rows: [exc, at, cv, param_grid, log], where cv and
\* param_grid are the attributes as the call leaves them and `at` is where an
\* exception was raised. logscale is the array np.unique made of the log
\* scale, prefs the preference grid of _min_max_dist_heuristic(X, affinity);
\* with no sample per split the log scale ends at log10(0) and int() of one
\* of its samples may raise (nan_raises).
fit_grid(self, n_samples, logscale, prefs, nan_raises) ==
    LET g == fit_guard(n_samples, self.cv)
        Stop(e, at, pg) ==
            [exc |-> e, at |-> at, cv |-> g.cv, param_grid |-> pg,
             log |-> g.log]
    IN  IF g.exc # "" THEN Stop(g.exc, "guard", self.param_grid)
        ELSE IF self.estimator = "KMeans"
        THEN IF g.cv = 0
             THEN Stop("ZeroDivisionError", "grid", self.param_grid)
             ELSE IF n_samples \div g.cv = 0 /\ nan_raises
             THEN Stop("ValueError", "grid", self.param_grid)
             ELSE Stop("", "",
                       [key |-> "n_clusters",
                        values |-> sqrtn_heuristic(n_samples, g.cv, logscale)])
        ELSE IF self.estimator = "AffinityPropagation"
        THEN Stop("", "", [key |-> "preference", values |-> prefs])
        ELSE Stop("", "", self.param_grid)

\* The inherited fit (lines 280-284) on the grid built: it raises for an
\* empty grid and for fewer than two splits, and when the estimator raises
\* on a candidate (error_score='raise', pick = 0); otherwise best_params_ is
\* the pick-th candidate. [exc, at, cv, best, log]
fit_search(r, pick) ==
    IF r.exc # ""
    THEN [exc |-> r.exc, at |-> r.at, cv |-> r.cv, best |-> <<>>,
          log |-> r.log]
    ELSE IF r.param_grid.values = <<>> \/ r.cv < 2
            \/ pick \notin 1..Len(r.param_grid.values)
    THEN [exc |-> "ValueError", at |-> "search", cv |-> r.cv, best |-> <<>>,
          log |-> r.log]
    ELSE [exc |-> "", at |-> "", cv |-> r.cv,
          best |-> <<r.param_grid.values[pick]>>, log |-> r.log]

\* --------------------------------------------------------- define_pipeline

\* A parser that labels what it returns with the lowered key.
parse_preprocLowered(key, content) ==
    LET k == Lower(key)
        pp == CASE k = "none" -> New("DummyNone", <<>>)
                [] k = "recenter" ->
                     New("StandardScaler",
                         <<KV("with_mean", "True"), KV("with_std", "False")>>)
                [] k = "standardize" ->
                     New("StandardScaler",
                         <<KV("with_mean", "True"), KV("with_std", "True")>>)
                [] k = "normalize" ->
                     New("Normalizer", <<KV("norm", content.args[1])>>)
                [] k = "minmax" ->
                     New("MinMaxScaler",
                         <<KV("feature_range_min", content.args[1]),
                           KV("feature_range_max", content.args[2])>>)
                [] OTHER -> New("DummyNone", <<>>)
    IN  <<k, pp>>

parse_preproc(key, content) ==
    LET k == Lower(key)
        pp == CASE k = "none" -> New("DummyNone", <<>>)
                [] k = "recenter" ->
                     New("StandardScaler",
                         <<KV("with_mean", "True"), KV("with_std", "False")>>)
                [] k = "standardize" ->
                     New("StandardScaler",
                         <<KV("with_mean", "True"), KV("with_std", "True")>>)
                [] k = "normalize" ->
                     New("Normalizer", <<KV("norm", content.args[1])>>)
                [] k = "minmax" ->
                     New("MinMaxScaler",
                         <<KV("feature_range_min", content.args[1]),
                           KV("feature_range_max", content.args[2])>>)
                [] OTHER -> New("DummyNone", <<>>)
    IN  <<key, pp>>

\* `content` is one variant (a scalar) or, for a bare flag, the whole list.
parse_dimred(key, content) ==
    LET k == Lower(key)
        c == IF content.isList THEN "[True]" ELSE content.items[1]
        dr == CASE k = "none" -> New("DummyNone", <<>>)
                [] k = "pca" -> New("PCA", <<>>)
                [] k = "incrementalpca" -> New("IncrementalPCA", <<>>)
                [] k = "randomizedpca" -> New("RandomizedPCA", <<>>)
                [] k = "kernelpca" ->
                     New("KernelPCA",
                         <<KV("kernel", c), KV("n_components", "None")>>)
                [] k = "isomap" -> New("Isomap", <<>>)
                [] k = "lle" ->
                     New("LocallyLinearEmbedding", <<KV("method", c)>>)
                [] k = "ltsa" ->
                     New("LocallyLinearEmbedding", <<KV("method", c)>>)
                [] k = "se" -> New("SpectralEmbedding", <<>>)
                [] k = "mds" ->
                     New("MDS",
                         <<KV("metric",
                              IF c # "nonmetric" THEN "True" ELSE "False")>>)
                [] k = "tsne" -> New("TSNE", <<KV("n_components", "3")>>)
                [] OTHER -> New("DummyNone", <<>>)
    IN  <<key, dr>>

\* The branch of parse_clustering taken: 'auto' asks for the selector.
IsAuto(content) ==
    \/ DictGet(content, "n_clusters", "") = "auto"
    \/ DictGet(content, "preference", "") = "auto"

\* The log records parse_clustering emits.
parse_clustering_log(key, content) ==
    IF IsAuto(content) /\ Lower(key) \notin {"kmeans", "ap"}
    THEN << [level |-> "WARNING",
             msg |-> "n_clusters = 'auto' specified outside kmeans or ap",
             arg |-> <<>>] >>
    ELSE <<>>

\* parse_clustering: [exc, tpl]. exc = "" when the call returns tpl;
\* GridSearchCV(**kwargs) without 'estimator' raises TypeError.
parse_clustering(key, content) ==
    LET k == Lower(key)
        stripped == DictPop(DictPop(content, "n_clusters"), "preference")
        kwargs == <<KV("param_grid", "[]"), KV("n_jobs", "-1"),
                    KV("scoring", "silhouette_score"), KV("cv", "10")>>
        Ok(cl) == [exc |-> "", tpl |-> <<key, cl>>]
    IN  IF IsAuto(content)
        THEN CASE k = "kmeans" ->
                    LET c1 == SetDefault(stripped, "init", "k-means++")
                        c2 == SetDefault(c1, "n_jobs", "1")
                    IN  Ok([New("GridSearchCV", kwargs)
                              EXCEPT !.est = <<New("KMeans", c2)>>])
               [] k = "ap" ->
                    Ok([New("GridSearchCV",
                            Append(kwargs,
                                   KV("affinity",
                                      DictGet(stripped, "affinity",
                                              "euclidean"))))
                          EXCEPT !.est = <<New("AffinityPropagation",
                                               stripped)>>])
               [] OTHER -> [exc |-> "TypeError", tpl |-> <<>>]
        ELSE CASE k = "kmeans" ->
                    Ok(New("KMeans", SetDefault(content, "n_jobs", "-1")))
               [] k = "ap" ->
                    Ok(New("AffinityPropagation",
                           SetDefault(content, "preference", "1")))
               [] k = "ms" -> Ok(New("MeanShift", content))
               [] k = "spectral" -> Ok(New("SpectralClustering", content))
               [] k = "hierarchical" ->
                    Ok(New("AgglomerativeClustering", content))
               [] OTHER -> Ok(New("DummyNone", <<>>))

\* An imputing loop that does not look at the On/Off flag.
ImputeOptionsAlways(imputing) ==
    [n \in 1..Len(imputing.Replacement) |->
        Stored(<<"Impute_" \o imputing.Replacement[n],
                 New("Imputer",
                     <<KV("missing_values", imputing.Missing[1]),
                       KV("strategy", imputing.Replacement[n])>>)>>,
               "i", n)]

\* imputing -> i_lst_of_tpls
ImputeOptions(imputing) ==
    IF imputing.Impute[1]
    THEN [n \in 1..Len(imputing.Replacement) |->
            Stored(<<"Impute_" \o imputing.Replacement[n],
                     New("Imputer",
                         <<KV("missing_values", imputing.Missing[1]),
                           KV("strategy", imputing.Replacement[n])>>)>>,
                   "i", n)]
    ELSE <<>>

\* preproc -> pp_lst_of_tpls
PreprocOptions(preproc) ==
    LET On(e) == e.v.flag
        on == SelectSeq(preproc, On)
    IN  [n \in 1..Len(on) |-> Stored(parse_preproc(on[n].k, on[n].v), "pp", n)]

\* The parse_dimred calls of the dimred loop, in order: (key, content).
RECURSIVE DimredCalls(_)
DimredCalls(dimred) ==
    IF dimred = <<>> THEN <<>>
    ELSE LET e == Head(dimred)
             mine == IF ~e.v.flag THEN <<>>
                     ELSE IF e.v.hasArgs
                          THEN [n \in 1..Len(e.v.args) |->
                                   <<e.k, Scalar(e.v.args[n])>>]
                          ELSE << <<e.k, List(<<"True">>)>> >>
         IN  mine \o DimredCalls(Tail(dimred))

\* dimred -> dr_lst_of_tpls
DimredOptions(dimred) ==
    LET calls == DimredCalls(dimred)
    IN  [n \in 1..Len(calls) |->
            Stored(parse_dimred(calls[n][1], calls[n][2]), "dr", n)]

\* A filter that knows 'manhattan' only.
InvalidCombinationManhattan(single) ==
    /\ DictGet(single, "affinity", "") = "manhattan"
    /\ DictGet(single, "linkage", "") = "ward"

\* The combinations parse_steps refuses to instantiate.
InvalidCombination(single) ==
    /\ DictGet(single, "affinity", "") \in {"manhattan", "precomputed"}
    /\ DictGet(single, "linkage", "") = "ward"

\* The parse_clustering calls of the clustering loop, in order.
RECURSIVE ClusteringCalls(_)
ClusteringCalls(clustering) ==
    IF clustering = <<>> THEN <<>>
    ELSE LET e == Head(clustering)
             dc == e.v.args
             lls == modified_cartesian(
                        [n \in 1..Len(dc) |-> ensure_list(dc[n].v)])
             singles == [j \in 1..Len(lls) |->
                            [n \in 1..Len(dc) |-> KV(dc[n].k, lls[j][n])]]
             Valid(s) == ~InvalidCombination(s)
             kept == SelectSeq(singles, Valid)
             mine == IF ~e.v.flag THEN <<>>
                     ELSE IF e.v.hasArgs
                          THEN [j \in 1..Len(kept) |-> <<e.k, kept[j]>>]
                          ELSE << <<e.k, <<>> >> >>
         IN  mine \o ClusteringCalls(Tail(clustering))

RECURSIVE ConcatLogs(_, _)
ConcatLogs(calls, upto) ==
    IF upto = 0 THEN <<>>
    ELSE ConcatLogs(calls, upto - 1)
             \o parse_clustering_log(calls[upto][1], calls[upto][2])

\* A cap that keeps one pipeline too few.
TruncateShort(pipes) ==
    IF Len(pipes) > max_n_pipes
    THEN SubSeq(pipes, 1, max_n_pipes - 1)
    ELSE pipes

\* A cap that keeps the last max_n_pipes.
TruncateLast(pipes) ==
    IF Len(pipes) > max_n_pipes
    THEN SubSeq(pipes, Len(pipes) - max_n_pipes + 1, Len(pipes))
    ELSE pipes

\* Keep only the first max_n_pipes.
Truncate(pipes) ==
    IF Len(pipes) > max_n_pipes THEN SubSeq(pipes, 1, max_n_pipes) ELSE pipes

\* The log records of the final part of parse_steps (lines 231-237).
ExpansionLog(pipes) ==
    [n \in 1..Len(pipes) |->
        [level |-> "INFO", msg |-> "Generated pipeline", arg |-> pipes[n]]]
    \o << [level |-> "INFO", msg |-> "pipeline(s) generated",
           arg |-> <<Str(Len(pipes))>>] >>
    \o (IF Len(pipes) > max_n_pipes
        THEN << [level |-> "WARNING",
                 msg |-> "Maximum number of pipelines reached",
                 arg |-> <<Str(max_n_pipes)>>] >>
        ELSE <<>>)

\* A parse_clustering that pops 'n_clusters' and 'preference' from the
\* configuration's own dictionary instead of the per-combination copy.
ConfigAfterShared(steps) ==
    LET HasAuto(dc) ==
            \E n \in 1..Len(dc) :
                /\ dc[n].k \in {"n_clusters", "preference"}
                /\ \E m \in 1..Len(ensure_list(dc[n].v)) :
                       ensure_list(dc[n].v)[m] = "auto"
        After(e) ==
            IF e.v.flag /\ e.v.hasArgs /\ HasAuto(e.v.args)
            THEN KV(e.k, [e.v EXCEPT
                            !.args = DictPop(DictPop(@, "n_clusters"),
                                             "preference")])
            ELSE e
    IN  [steps EXCEPT ![4] = [n \in 1..Len(steps[4]) |-> After(steps[4][n])]]

\* The four dictionaries after a call of parse_steps: parse_clustering pops
\* and sets defaults on _single_content, built anew for each combination
\* (line 220), or on a new dict() (line 226), never on the configuration.
ConfigAfter(steps) == steps

\* parse_steps(steps): [exc, pipes, log, after]; exc = "" when it returns
\* pipes; after is what the call leaves in `steps`.
parse_steps(steps) ==
    LET i_lst_of_tpls == ImputeOptions(steps[1])
        pp_lst_of_tpls == PreprocOptions(steps[2])
        dr_lst_of_tpls == DimredOptions(steps[3])
        calls == ClusteringCalls(steps[4])
        res == [n \in 1..Len(calls) |->
                   parse_clustering(calls[n][1], calls[n][2])]
        bad == {n \in 1..Len(calls) : res[n].exc # ""}
        first == CHOOSE n \in bad : \A m \in bad : n <= m
        cl_lst_of_tpls == [n \in 1..Len(calls) |-> Stored(res[n].tpl, "cl", n)]
        pipes == modified_cartesian_pipes(i_lst_of_tpls, pp_lst_of_tpls,
                                          dr_lst_of_tpls, cl_lst_of_tpls)
    IN  IF bad # {}
        THEN [exc |-> res[first].exc, pipes |-> <<>>,
              log |-> ConcatLogs(calls, first),
              after |-> ConfigAfter(steps)]
        ELSE [exc |-> "", pipes |-> Truncate(pipes),
              log |-> ConcatLogs(calls, Len(calls)) \o ExpansionLog(pipes),
              after |-> ConfigAfter(steps)]

\* ---------------------------------------------------------- configurations

Content(flag) == [flag |-> flag, hasArgs |-> FALSE, args |-> <<>>]

ContentArgs(flag, args) == [flag |-> flag, hasArgs |-> TRUE, args |-> args]

ImputeNames == <<"mean", "median", "most_frequent", "nearest_neighbors">>

\* step0 = {'Impute': [on], 'Replacement': [...], 'Missing': ['NaN']}
ImputingConf(on, n) ==
    [Impute |-> <<on>>, Replacement |-> SubSeq(ImputeNames, 1, n),
     Missing |-> <<"NaN">>]

PreprocKeys ==
    <<"Standardize", "None", "MinMax", "Whiten", "Recenter", "Normalize">>

PreprocEntry(key, flag) ==
    KV(key, CASE key = "MinMax" -> ContentArgs(flag, <<"0", "1">>)
              [] key = "Normalize" -> ContentArgs(flag, <<"l2">>)
              [] OTHER -> Content(flag))

\* step1 with its first n keys switched on
PreprocConf(n) ==
    [j \in 1..Len(PreprocKeys) |-> PreprocEntry(PreprocKeys[j], j <= n)]

DimredEntries(n) ==
    << KV("PCA", Content(1 <= n)),
       KV("KernelPCA", ContentArgs(2 <= n, <<"linear", "rbf">>)),
       KV("LLE", ContentArgs(3 <= n, <<"standard", "modified">>)),
       KV("Autoencoder", Content(4 <= n)),
       KV("MDS", ContentArgs(5 <= n, <<"metric", "nonmetric">>)) >>

\* step2 with its first n keys switched on
DimredConf(n) == DimredEntries(n)

ClusteringEntries(n) ==
    << KV("KMeans",
          ContentArgs(1 <= n,
                      <<KV("n_clusters", List(<<"2", "3", "auto">>))>>)),
       KV("Hierarchical",
          ContentArgs(2 <= n,
                      <<KV("affinity",
                           List(<<"euclidean", "manhattan", "precomputed">>)),
                        KV("linkage", List(<<"ward", "complete">>))>>)),
       KV("AP", ContentArgs(3 <= n, <<KV("preference", Scalar("auto"))>>)),
       KV("MS", Content(4 <= n)),
       KV("DBSCAN", Content(5 <= n)) >>

\* step3 with its first n keys switched on
ClusteringConf(n) == ClusteringEntries(n)

\* step3 asking for 'auto' outside kmeans and ap
AutoOutsideConf ==
    << KV("Spectral", ContentArgs(TRUE, <<KV("n_clusters", Scalar("auto"))>>)) >>

\* step3 = {'MS': [True]}
MeanShiftConf == << KV("MS", Content(TRUE)) >>

\* The configurations parse_steps is explored on.
ExpanderConfigs ==
    { <<ImputingConf(on, n), PreprocConf(p), DimredConf(d), c>> :
        on \in BOOLEAN, n \in 0..Min(MaxImpute, Len(ImputeNames)),
        p \in 0..Min(MaxPre, Len(PreprocKeys)), d \in 0..Min(MaxDim, Len(DimredEntries(0))),
        c \in {ClusteringConf(m) : m \in 0..Min(MaxClu, Len(ClusteringEntries(0)))}
                 \cup {AutoOutsideConf} }

\* The number of preprocessing keys that are on: with DistributorConfigs,
\* the number of pipelines.
K2Of(s) == Len(PreprocOptions(s[2]))

\* The configurations the distributor is explored on: 0..MaxJobs pipelines.
DistributorConfigs ==
    { <<ImputingConf(FALSE, 0), PreprocConf(p), DimredConf(1), MeanShiftConf>> :
        p \in 0..Min(MaxJobs, Len(PreprocKeys)) }

\* ------------------------------------------------------------------- state

VARIABLES
    steps,         \* [config.step0, config.step1, config.step2, config.step3]
    nprocs,        \* COMM.Get_size(); 1 when the run is not an MPI job
    pcM,           \* where rank 0 is in master() / in the parse_steps call
    pipes,         \* master: the list parse_steps returned
    log,           \* the records handed to logging by parse_steps
    queue,         \* master: deque of (index, pipeline)
    pipe_tuple,    \* master: <<unit>> popped in the while loop, or <<>>
    pipe_dump,     \* master: the result dictionary (pipes_dump in master_dask)
    count,         \* master: results received
    n_pipes,       \* master: len(queue) at the start
    rankk,         \* master: loop variable of the three for loops
    inbox,         \* per slave: messages sent by rank 0, not yet received
    outbox,        \* per slave: messages sent to rank 0, not yet received
    pcS,           \* per slave: where it is in slave()
    received,      \* per slave: the (i, pipe) it is working on
    sends,         \* number of COMM.send calls made so far, all ranks
    dispatch_log,  \* the DO_WORK sends so far: [i, dest]
    raises,        \* per pipeline index: the stage that raises when the
                   \* pipeline is evaluated on X, 0 when none does
    phase,         \* per rank: where it is in main()
    use_compression, \* config.use_compression: "True", "False" or "absent"
    files,         \* the artifacts written so far, in order
    dumpfile,      \* ade_analysis: what init_main made of the output folder
    call,          \* a single call of a parser, heuristic or scorer: its
                   \* arguments
    ret            \* what that call returned or raised

vars ==
    <<steps, nprocs, pcM, pipes, log, queue, pipe_tuple, pipe_dump, count,
      n_pipes, rankk, inbox, outbox, pcS, received, sends, dispatch_log,
      raises, phase, use_compression, files, dumpfile, call, ret>>

\* The state of master(), slave() and parse_steps.
runVars ==
    <<steps, nprocs, pcM, pipes, log, queue, pipe_tuple, pipe_dump, count,
      n_pipes, rankk, inbox, outbox, pcS, received, sends, dispatch_log>>

\* The state of main() around master() and slave().
mainVars == <<phase, use_compression, files, dumpfile>>

\* The state of a single call.
callVars == <<call, ret>>

IS_MPI_JOB == nprocs > 1

Slaves == 1..(nprocs - 1)

\* 'pipe' + str(i)
PipeId(i) == "pipe" \o Str(i)

\* The stage that raises when the pipeline of index i is evaluated, or 0.
RaisesAt(i) == IF i \in DOMAIN raises THEN raises[i] ELSE 0

\* A stage's record when the stage ran, and when it or a stage before it
\* raised: every field is np.nan.
StageRecord(tpl) == [label |-> tpl[1], model |-> <<tpl[2]>>, nan |-> FALSE]

NanRecord == [label |-> "nan", model |-> <<>>, nan |-> TRUE]

\* pipe_worker(pipe_id, pipe, None, X) when it returns: one record per stage,
\* in order; from the stage that raises on, the records are filled with nan.
pipe_worker(pipe_id, pipe, raising) ==
    [dump |-> [n \in 1..Len(pipe) |->
                  IF raising = 0 \/ n < raising
                  THEN StageRecord(pipe[n])
                  ELSE NanRecord]]

\* list(enumerate(pipes))
Enumerate(ps) == [n \in 1..Len(ps) |-> <<n - 1, ps[n]>>]

\* d[k] = v
DictSet(d, k, v) ==
    [x \in DOMAIN d \cup {k} |-> IF x = k THEN v ELSE d[x]]

\* range(1, min(nprocs, n_pipes)): the ranks seeded.
SeedStop(np, n) == Min(np, n)

\* A collecting loop that stops one result short.
CollectStopShort(np, n) == Min(np, n) - 1

\* range(1, min(nprocs, n_pipes)): one result awaited per rank seeded.
CollectStop(np, n) == Min(np, n)

\* An exit loop that runs one rank too far.
ExitStopBeyond(np) == np + 1

\* range(1, nprocs): the ranks told to exit.
ExitStop(np) == np

\* Reading queue[0] without removing it.
PopLeftPeek(q) == q

\* queue.popleft(): what is left
PopLeft(q) == Tail(q)

\* A send that always goes to rank 1.
SendWorkToFirst(box, r, unit) ==
    [box EXCEPT ![1] = Append(@, [tag |-> DO_WORK, data |-> unit])]

\* COMM.send(pipe_tuple, dest=r, tag=DO_WORK)
SendWork(box, r, unit) ==
    [box EXCEPT ![r] = Append(@, [tag |-> DO_WORK, data |-> unit])]

\* pipe_dump[pipe_id] = step_dump, for a received (pipe_id, step_dump)
StoreResult(dump, data) == DictSet(dump, data[1], data[2])

\* A slave that numbers the pipelines from 1.
SlaveResultOneBased(unit) ==
    <<PipeId(unit[1] + 1),
      pipe_worker(PipeId(unit[1] + 1), unit[2], RaisesAt(unit[1]))>>

\* What the slave sends back for the unit (i, pipe).
SlaveResult(unit) ==
    LET i == unit[1]
        pipe == unit[2]
        pipe_id == PipeId(i)
        step_dump == pipe_worker(pipe_id, pipe, RaisesAt(i))
    IN  <<pipe_id, step_dump>>

\* master_dask: every key of pipes_dump is bound to `res`, the gathered list.
master_dask(ps) ==
    LET res == [n \in 1..Len(ps) |-> pipe_worker("None", ps[n], RaisesAt(n - 1))]
    IN  [k \in {PipeId(n - 1) : n \in 1..Len(res)} |-> [items |-> res]]

master_single_machine(ps) == master_dask(ps)

\* No call is being made; the call has not returned yet.
NoCall == [fn |-> "none"]

NoRet == [exc |-> "pending"]

\* init_main of ade_analysis has not run.
NoDumpfile == [pc |-> "idle"]

InitCommon ==
    /\ pcM = "start"
    /\ pipes = <<>>
    /\ log = <<>>
    /\ queue = <<>>
    /\ pipe_tuple = <<>>
    /\ pipe_dump = <<>>
    /\ count = 0
    /\ n_pipes = 0
    /\ rankk = 0
    /\ inbox = [r \in Slaves |-> <<>>]
    /\ outbox = [r \in Slaves |-> <<>>]
    /\ pcS = [r \in Slaves |-> "recv"]
    /\ received = [r \in Slaves |-> <<>>]
    /\ sends = 0
    /\ dispatch_log = <<>>
    /\ files = <<>>
    /\ dumpfile = NoDumpfile
    /\ ret = NoRet

\* Every stage of every pipeline runs on X.
NoRaise == [i \in 0..(MaxJobs - 1) |-> 0]

\* master() and slave() once every rank is past the first barrier of main().
Init ==
    /\ steps \in DistributorConfigs
    /\ nprocs \in 1..MaxProcs
    /\ InitCommon
    /\ raises = NoRaise
    /\ phase = [r \in 0..(nprocs - 1) |-> "run"]
    /\ use_compression = "absent"
    /\ call = NoCall

\* parse_steps on its own: any configuration, a single process.
InitParse ==
    /\ steps \in ExpanderConfigs
    /\ nprocs = 1
    /\ InitCommon
    /\ raises = NoRaise
    /\ phase = [r \in 0..(nprocs - 1) |-> "run"]
    /\ use_compression = "absent"
    /\ call = NoCall

\* --------------------------------------------------------------- expander

\* A call of define_pipeline.parse_steps that returns or raises.
ParseStepsCall ==
    /\ pcM = "start"
    /\ \E r \in {parse_steps(steps)} :
           /\ log' = log \o r.log
           /\ pipes' = r.pipes
           /\ steps' = r.after
           /\ pcM' = IF r.exc = "" THEN "parsed" ELSE "raised"
    /\ UNCHANGED <<nprocs, queue, pipe_tuple, pipe_dump, count,
                   n_pipes, rankk, inbox, outbox, pcS, received, sends,
                   dispatch_log>>
    /\ UNCHANGED <<raises, mainVars, callVars>>

\* A second call of parse_steps on the same list of dictionaries.
ParseStepsAgain ==
    /\ pcM = "parsed"
    /\ \E r \in {parse_steps(steps)} :
           /\ log' = log \o r.log
           /\ pipes' = r.pipes
           /\ steps' = r.after
           /\ pcM' = IF r.exc = "" THEN "parsed2" ELSE "raised"
    /\ UNCHANGED <<nprocs, queue, pipe_tuple, pipe_dump, count,
                   n_pipes, rankk, inbox, outbox, pcS, received, sends,
                   dispatch_log>>
    /\ UNCHANGED <<raises, mainVars, callVars>>

ParseNext ==
    \/ ParseStepsCall
    \/ ParseStepsAgain

\* ------------------------------------------------------------------ master

\* master(), not an MPI job: parse_steps, then master_single_machine.
MasterSingleMachine ==
    /\ pcM = "start"
    /\ phase[0] = "run"
    /\ ~IS_MPI_JOB
    /\ \E r \in {parse_steps(steps)} :
           /\ log' = log \o r.log
           /\ pipes' = r.pipes
           /\ steps' = r.after
           /\ IF r.exc # ""
              THEN pcM' = "crashed" /\ UNCHANGED pipe_dump
              ELSE \/ pcM' = "done" /\ pipe_dump' = master_single_machine(r.pipes)
                   \* a pipe_worker call raised: gather re-raises
                   \/ r.pipes # <<>> /\ pcM' = "crashed" /\ UNCHANGED pipe_dump
    /\ UNCHANGED <<nprocs, queue, pipe_tuple, count, n_pipes, rankk,
                   inbox, outbox, pcS, received, sends, dispatch_log>>
    /\ UNCHANGED <<raises, mainVars, callVars>>

\* master(), MPI job: parse_steps and the set-up of lines 169-175.
MasterStart ==
    /\ pcM = "start"
    /\ phase[0] = "run"
    /\ IS_MPI_JOB
    /\ \E r \in {parse_steps(steps)} :
           /\ log' = log \o r.log
           /\ pipes' = r.pipes
           /\ steps' = r.after
           /\ IF r.exc # ""
              THEN pcM' = "crashed" /\ UNCHANGED <<queue, n_pipes, rankk>>
              ELSE /\ queue' = Enumerate(r.pipes)
                   /\ n_pipes' = Len(r.pipes)
                   /\ rankk' = 1
                   /\ pcM' = "seed"
    /\ pipe_dump' = <<>>
    /\ count' = 0
    /\ UNCHANGED <<nprocs, pipe_tuple, inbox, outbox, pcS, received,
                   sends, dispatch_log>>
    /\ UNCHANGED <<raises, mainVars, callVars>>

\* One iteration of the seeding loop, or its end.
MasterSeed ==
    /\ pcM = "seed"
    /\ phase[0] = "run"
    /\ IF rankk < SeedStop(nprocs, n_pipes)
       THEN /\ queue' = PopLeft(queue)
            /\ inbox' = SendWork(inbox, rankk, Head(queue))
            /\ sends' = sends + 1
            /\ dispatch_log' =
                   Append(dispatch_log, [i |-> Head(queue)[1], dest |-> rankk])
            /\ rankk' = rankk + 1
            /\ UNCHANGED pcM
       ELSE /\ pcM' = "loop"
            /\ UNCHANGED <<queue, inbox, sends, dispatch_log, rankk>>
    /\ UNCHANGED <<steps, nprocs, pipes, log, pipe_tuple, pipe_dump, count,
                   n_pipes, outbox, pcS, received>>
    /\ UNCHANGED <<raises, mainVars, callVars>>

\* The while test and, when the queue is not empty, queue.popleft(); after
\* it the master blocks in COMM.recv.
MasterPop ==
    /\ pcM = "loop"
    /\ phase[0] = "run"
    /\ IF queue # <<>>
       THEN /\ pipe_tuple' = <<Head(queue)>>
            /\ queue' = PopLeft(queue)
            /\ pcM' = "wait"
            /\ UNCHANGED rankk
       ELSE /\ pcM' = "collect"
            /\ rankk' = 1
            /\ UNCHANGED <<queue, pipe_tuple>>
    /\ UNCHANGED <<steps, nprocs, pipes, log, pipe_dump, count, n_pipes,
                   inbox, outbox, pcS, received, sends, dispatch_log>>
    /\ UNCHANGED <<raises, mainVars, callVars>>

\* The rest of the while body: a result arrives from slave r, is stored, and
\* the popped unit is sent to r.
MasterRecvSend(r) ==
    /\ pcM = "wait"
    /\ phase[0] = "run"
    /\ r \in Slaves
    /\ outbox[r] # <<>>
    /\ pipe_dump' = StoreResult(pipe_dump, Head(outbox[r]).data)
    /\ outbox' = [outbox EXCEPT ![r] = Tail(@)]
    /\ count' = count + 1
    /\ inbox' = SendWork(inbox, r, pipe_tuple[1])
    /\ sends' = sends + 1
    /\ dispatch_log' =
           Append(dispatch_log, [i |-> pipe_tuple[1][1], dest |-> r])
    /\ pipe_tuple' = <<>>
    /\ pcM' = "loop"
    /\ UNCHANGED <<steps, nprocs, pipes, log, queue, n_pipes, rankk, pcS,
                   received>>
    /\ UNCHANGED <<raises, mainVars, callVars>>

\* One iteration of the loop that receives the outstanding results.
MasterCollect(r) ==
    /\ pcM = "collect"
    /\ phase[0] = "run"
    /\ rankk < CollectStop(nprocs, n_pipes)
    /\ r \in Slaves
    /\ outbox[r] # <<>>
    /\ pipe_dump' = StoreResult(pipe_dump, Head(outbox[r]).data)
    /\ outbox' = [outbox EXCEPT ![r] = Tail(@)]
    /\ count' = count + 1
    /\ rankk' = rankk + 1
    /\ UNCHANGED <<steps, nprocs, pcM, pipes, log, queue, pipe_tuple, n_pipes,
                   inbox, pcS, received, sends, dispatch_log>>
    /\ UNCHANGED <<raises, mainVars, callVars>>

MasterCollectEnd ==
    /\ pcM = "collect"
    /\ phase[0] = "run"
    /\ ~(rankk < CollectStop(nprocs, n_pipes))
    /\ pcM' = "exit"
    /\ rankk' = 1
    /\ UNCHANGED <<steps, nprocs, pipes, log, queue, pipe_tuple, pipe_dump,
                   count, n_pipes, inbox, outbox, pcS, received, sends,
                   dispatch_log>>
    /\ UNCHANGED <<raises, mainVars, callVars>>

\* One iteration of the loop that sends EXIT, or the return of master().
MasterExit ==
    /\ pcM = "exit"
    /\ phase[0] = "run"
    /\ IF rankk < ExitStop(nprocs)
       THEN /\ inbox' = [inbox EXCEPT
                           ![rankk] = Append(@, [tag |-> EXIT, data |-> <<>>])]
            /\ sends' = sends + 1
            /\ rankk' = rankk + 1
            /\ UNCHANGED pcM
       ELSE /\ pcM' = "done"
            /\ UNCHANGED <<inbox, sends, rankk>>
    /\ UNCHANGED <<steps, nprocs, pipes, log, queue, pipe_tuple, pipe_dump,
                   count, n_pipes, outbox, pcS, received, dispatch_log>>
    /\ UNCHANGED <<raises, mainVars, callVars>>

\* ------------------------------------------------------------------- slave

\* COMM.recv(source=0) returns: EXIT ends slave(), anything else is a unit.
SlaveRecv(r) ==
    /\ r \in Slaves
    /\ phase[r] = "run"
    /\ pcS[r] = "recv"
    /\ inbox[r] # <<>>
    /\ inbox' = [inbox EXCEPT ![r] = Tail(@)]
    /\ IF Head(inbox[r]).tag = EXIT
       THEN /\ pcS' = [pcS EXCEPT ![r] = "returned"]
            /\ UNCHANGED received
       ELSE /\ pcS' = [pcS EXCEPT ![r] = "work"]
            /\ received' = [received EXCEPT ![r] = Head(inbox[r]).data]
    /\ UNCHANGED <<steps, nprocs, pcM, pipes, log, queue, pipe_tuple,
                   pipe_dump, count, n_pipes, rankk, outbox, sends,
                   dispatch_log>>
    /\ UNCHANGED <<raises, mainVars, callVars>>

\* pipe_worker returns and the result is sent to rank 0.
SlaveWork(r) ==
    /\ r \in Slaves
    /\ phase[r] = "run"
    /\ pcS[r] = "work"
    /\ outbox' = [outbox EXCEPT
                    ![r] = Append(@, [tag |-> 0,
                                      data |-> SlaveResult(received[r])])]
    /\ sends' = sends + 1
    /\ pcS' = [pcS EXCEPT ![r] = "recv"]
    /\ received' = [received EXCEPT ![r] = <<>>]
    /\ UNCHANGED <<steps, nprocs, pcM, pipes, log, queue, pipe_tuple,
                   pipe_dump, count, n_pipes, rankk, inbox, dispatch_log>>
    /\ UNCHANGED <<raises, mainVars, callVars>>

\* pipe_worker raises: the except clause prints and slave() ends.
SlaveRaise(r) ==
    /\ r \in Slaves
    /\ phase[r] = "run"
    /\ pcS[r] = "work"
    /\ pcS' = [pcS EXCEPT ![r] = "quit"]
    /\ UNCHANGED <<steps, nprocs, pcM, pipes, log, queue, pipe_tuple,
                   pipe_dump, count, n_pipes, rankk, inbox, outbox, received,
                   sends, dispatch_log>>
    /\ UNCHANGED <<raises, mainVars, callVars>>

\* -------------------------------------------------------------------- main

Ranks == 0..(nprocs - 1)

\* How far a rank is in main(); a rank whose master() raised stays short of
\* the final barrier.
PhaseOrder(p) ==
    CASE p = "enter" -> 0
      [] p = "load" -> 1
      [] p = "barrier1" -> 2
      [] p = "load2" -> 3
      [] p = "run" -> 4
      [] p = "aborted" -> 4
      [] p = "barrier2" -> 5
      [] p = "save" -> 6
      [] p = "save_data" -> 7
      [] p = "end" -> 8

\* A barrier that lets a rank through at once.
BarrierOpenAlways(ph, at) == TRUE

\* COMM.barrier() returns in a rank once every rank has called it.
BarrierOpen(ph, at) ==
    \A r \in DOMAIN ph : PhaseOrder(ph[r]) >= PhaseOrder(at)

\* use_compression as main() reads it from the configuration module.
UseCompression(flag) == IF flag = "absent" THEN FALSE ELSE flag = "True"

\* filename = '_'.join(('ade', exp_tag, extra.get_time()))
filename == "ade_debug_time"

\* The result artifact: path in outfolder, gzip or plain, pickled object.
ResultFile(compress, dump) ==
    [name |-> filename \o (IF compress THEN ".pkl.tz" ELSE ".pkl"),
     gzip |-> compress, content |-> [pipes_dump |-> dump]]

\* A data artifact that is written plain whatever the flag.
DataFilePlain(compress) ==
    [name |-> "__data.pkl", gzip |-> FALSE, content |-> [data |-> "Xy"]]

\* The companion artifact with X, y and index.
DataFile(compress) ==
    [name |-> "__data" \o (IF compress THEN ".pkl.tz" ELSE ".pkl"),
     gzip |-> compress, content |-> [data |-> "Xy"]]

\* main() from its start: no rank has called the first barrier.
InitMain ==
    /\ steps \in DistributorConfigs
    /\ nprocs \in 1..MaxProcs
    /\ InitCommon
    /\ raises = NoRaise
    /\ phase = [r \in 0..(nprocs - 1) |-> "enter"]
    /\ use_compression \in {"True", "False", "absent"}
    /\ call = NoCall

\* Lines 243-256: rank 0 starts loading the configuration file; another
\* rank goes straight to the first barrier.
MainEnter(r) ==
    /\ r \in Ranks
    /\ phase[r] = "enter"
    /\ phase' = [phase EXCEPT ![r] = IF r = 0 THEN "load" ELSE "barrier1"]
    /\ UNCHANGED <<runVars, raises, use_compression, files, dumpfile, callVars>>

\* imp.load_source has returned: rank 0 (lines 249-256) calls the first
\* barrier in an MPI job; another rank (lines 264-303) reads the
\* configuration and calls slave().
MainLoaded(r) ==
    /\ r \in Ranks
    /\ phase[r] \in {"load", "load2"}
    /\ phase' = [phase EXCEPT ![r] = IF phase[r] = "load" /\ IS_MPI_JOB
                                     THEN "barrier1"
                                     ELSE "run"]
    /\ UNCHANGED <<runVars, raises, use_compression, files, dumpfile, callVars>>

\* Lines 254-303: past the first barrier rank 0 reads the configuration and
\* calls master(); another rank starts loading the configuration file.
MainBarrier1(r) ==
    /\ r \in Ranks
    /\ phase[r] = "barrier1"
    /\ BarrierOpen(phase, "barrier1")
    /\ phase' = [phase EXCEPT ![r] = IF r = 0 THEN "run" ELSE "load2"]
    /\ UNCHANGED <<runVars, raises, use_compression, files, dumpfile, callVars>>

\* Lines 303-307: master() or slave() has returned; in an MPI job the rank
\* calls the final barrier.
MainLeave(r) ==
    /\ r \in Ranks
    /\ phase[r] = "run"
    /\ IF r = 0 THEN pcM = "done" ELSE pcS[r] \in {"returned", "quit"}
    /\ phase' = [phase EXCEPT ![r] = IF IS_MPI_JOB THEN "barrier2" ELSE "save"]
    /\ UNCHANGED <<runVars, raises, use_compression, files, dumpfile, callVars>>

\* master() raised: main() ends in rank 0 with the exception.
MainAbort ==
    /\ phase[0] = "run"
    /\ pcM = "crashed"
    /\ phase' = [phase EXCEPT ![0] = "aborted"]
    /\ UNCHANGED <<runVars, raises, use_compression, files, dumpfile, callVars>>

\* Lines 305-309: past the final barrier rank 0 goes on to save, the other
\* ranks are done.
MainBarrier2(r) ==
    /\ r \in Ranks
    /\ phase[r] = "barrier2"
    /\ BarrierOpen(phase, "barrier2")
    /\ phase' = [phase EXCEPT ![r] = IF r = 0 THEN "save" ELSE "end"]
    /\ UNCHANGED <<runVars, raises, use_compression, files, dumpfile, callVars>>

\* Lines 309-326: rank 0 pickles pipes_dump.
SaveResults ==
    /\ phase[0] = "save"
    /\ files' = Append(files,
                       ResultFile(UseCompression(use_compression), pipe_dump))
    /\ phase' = [phase EXCEPT ![0] = "save_data"]
    /\ UNCHANGED <<runVars, raises, use_compression, dumpfile, callVars>>

\* Lines 328-348: rank 0 pickles X, y and index, copies the configuration
\* file into the folder and moves the log file there.
SaveData ==
    /\ phase[0] = "save_data"
    /\ files' = Append(files, DataFile(UseCompression(use_compression)))
    /\ phase' = [phase EXCEPT ![0] = "end"]
    /\ UNCHANGED <<runVars, raises, use_compression, dumpfile, callVars>>

\* f contains s: Python's `s in f` for strings.
Contains(f, s) ==
    \E i \in 1..(Len(f) - Len(s) + 1) : SubSeq(f, i, i + Len(s) - 1) = s

\* The names in the output folder once main() has ended in rank 0.
OutFolder(fs) ==
    {fs[n].name : n \in 1..Len(fs)} \cup {"ade_config.py", filename \o ".log"}

\* os.listdir(root_folder): the names, in arbitrary order.
Listings(names) ==
    {l \in [1..Cardinality(names) -> names] :
        \A i, j \in 1..Cardinality(names) : i # j => l[i] # l[j]}

\* The condition of the list comprehension of init_main (every name of the
\* folder is a file).
KeptByFilter(f) == Contains(f, ".pkl") /\ f # "__data.pkl"

\* init_main on a listing: sys.exit(-1) when no name is kept, main() on the
\* first name kept otherwise.
init_main(listing) ==
    LET kept == SelectSeq(listing, KeptByFilter)
    IN  IF kept = <<>> THEN [pc |-> "exit"]
                       ELSE [pc |-> "main", name |-> kept[1]]

\* ade_analysis.py is run on the output folder of the finished run.
AnalysisInitMain ==
    /\ phase[0] = "end"
    /\ dumpfile = NoDumpfile
    /\ \E listing \in Listings(OutFolder(files)) :
           dumpfile' = init_main(listing)
    /\ UNCHANGED <<runVars, raises, phase, use_compression, files, callVars>>

MainNext ==
    \/ \E r \in 0..(MaxProcs - 1) : MainEnter(r)
    \/ \E r \in 0..(MaxProcs - 1) : MainLoaded(r)
    \/ \E r \in 0..(MaxProcs - 1) : MainBarrier1(r)
    \/ \E r \in 0..(MaxProcs - 1) : MainLeave(r)
    \/ MainAbort
    \/ \E r \in 0..(MaxProcs - 1) : MainBarrier2(r)
    \/ SaveResults
    \/ SaveData
    \/ AnalysisInitMain

\* ------------------------------------------------------------- evaluation

\* The pipelines of the run and the stage at which each raises on X, if any
\* (three stages: imputing is off).
InitEval ==
    /\ steps \in DistributorConfigs
    /\ K2Of(steps) <= MaxEvalJobs
    /\ nprocs \in 1..MaxEvalProcs
    /\ InitCommon
    /\ raises \in {f \in [0..(MaxJobs - 1) -> 0..(Len(steps) - 1)] :
                     \A i \in 0..(MaxJobs - 1) :
                         i >= K2Of(steps) => f[i] = 0}
    /\ phase = [r \in 0..(nprocs - 1) |-> "run"]
    /\ use_compression = "absent"
    /\ call = NoCall

\* ------------------------------------------------------------ single calls

\* Keys and contents handed to parse_preproc: known keys in several
\* spellings, with the arguments they read, and keys it does not know.
ParsePreprocInputs ==
    {[fn |-> "parse_preproc", key |-> k, content |-> PreprocEntry(k, TRUE).v] :
        k \in {"None", "Recenter", "Standardize", "STANDARDIZE", "MinMax",
                "Normalize"}}
    \cup {[fn |-> "parse_preproc", key |-> k, content |-> c] :
            k \in {"Whiten", "Birch", "PCA"},
            c \in {Content(TRUE), ContentArgs(TRUE, <<"l2">>)}}

\* Keys and contents handed to parse_dimred.
ParseDimredInputs ==
    {[fn |-> "parse_dimred", key |-> k, content |-> c] :
        k \in {"PCA", "Pca", "KernelPCA", "LLE", "MDS", "Autoencoder",
                "Birch", "KMeans"},
        c \in {Scalar("rbf"), Scalar("nonmetric"), List(<<"True">>)}}

\* The parameter dictionaries handed to parse_clustering under a key.
ClusteringContents(key) ==
    CASE Lower(key) = "kmeans" ->
             { <<>>,
               <<KV("n_clusters", "3")>>,
               <<KV("n_clusters", "auto")>>,
               <<KV("n_clusters", "auto"), KV("init", "random")>>,
               <<KV("n_jobs", "4"), KV("n_clusters", "auto")>>,
               <<KV("n_clusters", "auto"), KV("preference", "-50")>> }
      [] Lower(key) = "ap" ->
             { <<>>,
               <<KV("preference", "-50")>>,
               <<KV("preference", "auto")>>,
               <<KV("damping", "0.9"), KV("preference", "auto")>>,
               <<KV("preference", "auto"), KV("affinity", "precomputed")>>,
               <<KV("preference", "auto"), KV("n_clusters", "3")>> }
      [] Lower(key) = "hierarchical" ->
             { <<>>,
               <<KV("affinity", "manhattan"), KV("linkage", "complete")>> }
      [] Lower(key) = "spectral" ->
             { <<>>, <<KV("n_clusters", "3")>>, <<KV("n_clusters", "auto")>> }
      [] Lower(key) = "ms" -> { <<>> }
      [] OTHER ->
             { <<>>, <<KV("eps", "0.5")>>, <<KV("n_clusters", "3")>>,
               <<KV("n_clusters", "auto")>> }

ParseClusteringInputs ==
    UNION {{[fn |-> "parse_clustering", key |-> k, content |-> [dict |-> c]] :
              c \in ClusteringContents(k)} :
           k \in {"KMeans", "kMeans", "AP", "MS", "Spectral", "Hierarchical",
                   "DBSCAN", "Birch", "PCA"}}

\* The fold counts of a selector built by parse_clustering: cv = 10, and 5
\* once fit has halved it.
FoldCounts == {10, 10 \div 2}

\* Sample counts and fold counts handed to _sqrtn_heuristic: at least one
\* sample per fold.
SqrtnInputs ==
    {c \in [fn : {"_sqrtn_heuristic"}, _n : 1..MaxSamples, cv : FoldCounts] :
        c._n >= c.cv}

\* Estimators and data handed to silhouette_score: with or without the
\* attribute affinity, and every labelling predict can return for X.
SilhouetteInputs ==
    UNION {{[fn |-> "silhouette_score", n_samples |-> n,
             estimator |-> [hasAffinity |-> a # "", affinity |-> a,
                            predict |-> y]] :
              a \in {"", "euclidean", "precomputed"},
              y \in [1..n -> 1..n]} :
           n \in 1..MaxScored}

\* One call of one function, before it is made.
InitCall ==
    /\ call \in ParsePreprocInputs \cup ParseDimredInputs
                 \cup ParseClusteringInputs \cup SqrtnInputs
                 \cup SilhouetteInputs
    /\ steps = <<ImputingConf(FALSE, 0), PreprocConf(0), DimredConf(0),
                 ClusteringConf(0)>>
    /\ nprocs = 1
    /\ InitCommon
    /\ raises = NoRaise
    /\ phase = [r \in 0..(nprocs - 1) |-> "run"]
    /\ use_compression = "absent"

\* parse_preproc(key, content); it makes no logging call.
ParsePreprocCall ==
    /\ call.fn = "parse_preproc"
    /\ ret = NoRet
    /\ ret' = [exc |-> "", value |-> parse_preproc(call.key, call.content),
               log |-> <<>>]
    /\ UNCHANGED <<runVars, raises, mainVars, call>>

\* parse_dimred(key, content); it makes no logging call.
ParseDimredCall ==
    /\ call.fn = "parse_dimred"
    /\ ret = NoRet
    /\ ret' = [exc |-> "", value |-> parse_dimred(call.key, call.content),
               log |-> <<>>]
    /\ UNCHANGED <<runVars, raises, mainVars, call>>

\* parse_clustering(key, content)
ParseClusteringCall ==
    /\ call.fn = "parse_clustering"
    /\ ret = NoRet
    /\ \E r \in {parse_clustering(call.key, call.content.dict)} :
           ret' = [exc |-> r.exc, value |-> r.tpl,
                   log |-> parse_clustering_log(call.key, call.content.dict)]
    /\ UNCHANGED <<runVars, raises, mainVars, call>>

\* GridSearchCV._sqrtn_heuristic(_n)
SqrtnHeuristicCall ==
    /\ call.fn = "_sqrtn_heuristic"
    /\ ret = NoRet
    /\ \E S \in SUBSET LogScaleValues(call._n \div call.cv) :
           /\ S # {}
           /\ ret' = [exc |-> "",
                      value |-> sqrtn_heuristic(call._n, call.cv, Sorted(S)),
                      log |-> <<>>]
    /\ UNCHANGED <<runVars, raises, mainVars, call>>

\* silhouette_score(estimator, X)
SilhouetteScoreCall ==
    /\ call.fn = "silhouette_score"
    /\ ret = NoRet
    /\ ret' = silhouette_score(call.estimator, call.n_samples)
    /\ UNCHANGED <<runVars, raises, mainVars, call>>

\* The selectors parse_clustering builds (cv = 10, param_grid = []) and the
\* number of rows of the data they are fitted on.
FitInputs ==
    [fn : {"fit"}, estimator : {"KMeans", "AffinityPropagation"},
     n_samples : 1..MaxFitSamples, cv : {10}, param_grid : {EmptyGrid},
     fits : {0}]

\* The preference grids of _min_max_dist_heuristic: integers between the
\* minimum and the median of the negated squared distances.
PreferenceGrids ==
    {Sorted(S) : S \in (SUBSET ((0 - MaxPreference)..0)) \ {{}}}

\* A selector and the data of its successive fits, before the first fit.
InitFit ==
    /\ call \in FitInputs
    /\ steps = <<ImputingConf(FALSE, 0), PreprocConf(0), DimredConf(0),
                 ClusteringConf(0)>>
    /\ nprocs = 1
    /\ InitCommon
    /\ raises = NoRaise
    /\ phase = [r \in 0..(nprocs - 1) |-> "run"]
    /\ use_compression = "absent"

\* The log scales _sqrtn_heuristic can start from in a fit with fold count
\* cv (after the guard); none is made for another estimator.
FitLogScales(estimator, n_samples, cv) ==
    IF estimator # "KMeans" \/ cv = 0 THEN {<<>>}
    ELSE {Sorted(S) : S \in SUBSET LogScaleValues(n_samples \div cv)}

\* The preference grids a fit can start from.
FitPreferences(estimator) ==
    IF estimator = "AffinityPropagation" THEN PreferenceGrids ELSE {<<>>}

\* Whether int() raises on a sample of the log scale: open when there is no
\* sample per split.
FitNanRaises(estimator, n_samples, cv) ==
    IF estimator = "KMeans" /\ cv # 0 /\ n_samples \div cv = 0
    THEN BOOLEAN
    ELSE {FALSE}

\* One call of fit(X) on the selector; the selector keeps self.cv and
\* self.param_grid from call to call.
FitCall ==
    /\ call.fn = "fit"
    /\ call.fits < MaxFits
    /\ \E cv \in {fit_guard(call.n_samples, call.cv).cv} :
         \E logscale \in FitLogScales(call.estimator, call.n_samples, cv),
            prefs \in FitPreferences(call.estimator),
            nan_raises \in FitNanRaises(call.estimator, call.n_samples, cv) :
           \E r \in {fit_grid(call, call.n_samples, logscale, prefs,
                              nan_raises)} :
             \E pick \in 0..Len(r.param_grid.values) :
                 /\ call' = [call EXCEPT !.cv = r.cv,
                                         !.param_grid = r.param_grid,
                                         !.fits = @ + 1]
                 /\ ret' = fit_search(r, pick)
    /\ UNCHANGED <<runVars, raises, mainVars>>

CallNext ==
    \/ ParsePreprocCall
    \/ ParseDimredCall
    \/ ParseClusteringCall
    \/ SqrtnHeuristicCall
    \/ SilhouetteScoreCall

\* ---------------------------------------------------------- specifications

MasterNext ==
    \/ MasterSingleMachine
    \/ MasterStart
    \/ MasterSeed
    \/ MasterPop
    \/ \E r \in 1..(MaxProcs - 1) : MasterRecvSend(r)
    \/ \E r \in 1..(MaxProcs - 1) : MasterCollect(r)
    \/ MasterCollectEnd
    \/ MasterExit

Next ==
    \/ MasterNext
    \/ \E r \in 1..(MaxProcs - 1) : SlaveRecv(r)
    \/ \E r \in 1..(MaxProcs - 1) : SlaveWork(r)
    \/ \E r \in 1..(MaxProcs - 1) : SlaveRaise(r)

Spec == Init /\ [][Next]_vars

ParseSpec == InitParse /\ [][ParseNext]_vars

CallSpec == InitCall /\ [][CallNext]_vars

\* Successive fits of one selector on one dataset.
FitSpec == InitFit /\ [][FitCall]_vars

\* main() in every rank, with master() and slave() inside it.
MainSpec == InitMain /\ [][Next \/ MainNext]_vars

\* master() and slave() on pipelines with stages that raise.
EvalSpec == InitEval /\ [][Next]_vars

\* Every process that can take a step eventually does; an evaluation is not
\* bound to raise.
FairSpec ==
    /\ Spec
    /\ WF_vars(MasterNext)
    /\ \A r \in 1..(MaxProcs - 1) : WF_vars(SlaveRecv(r) \/ SlaveWork(r))

\* ------------------------------------------------------------- properties

\* The keys 'pipe0' .. 'pipe(N-1)' for the N pipelines of `pipes`.
ExpectedKeys == {PipeId(i) : i \in 0..(Len(pipes) - 1)}

\* The index i for which k is 'pipe' + str(i), or -1.
IndexOfKey(k) ==
    IF \E i \in 0..(Len(pipes) - 1) : PipeId(i) = k
    THEN CHOOSE i \in 0..(Len(pipes) - 1) : PipeId(i) = k
    ELSE -1

\* A slave's evaluation has raised and ended its loop.
SomeSlaveQuit == \E r \in Slaves : pcS[r] = "quit"

\* C1: distributed mode: when master() has returned, the keys of the result
\* dictionary are exactly 'pipe0' .. 'pipe(N-1)', each stored once (N results
\* were received), whatever the order in which the slaves answered.
C1_KeySetExact ==
    (IS_MPI_JOB /\ pcM = "done") =>
        /\ DOMAIN pipe_dump = ExpectedKeys
        /\ Cardinality(ExpectedKeys) = Len(pipes)
        /\ count = Len(pipes)

\* master() has returned with 1 <= W <= N, two slaves and three pipelines
\* or more.
C1_Witness ==
    /\ IS_MPI_JOB /\ pcM = "done"
    /\ nprocs - 1 >= 2 /\ nprocs - 1 <= Len(pipes) /\ Len(pipes) >= 3
    /\ DOMAIN pipe_dump = ExpectedKeys

\* C2: distributed mode, for every N and every W >= 1: unless an evaluation
\* raises, eventually master() has returned and every slave has received its
\* EXIT (and no other) and left its loop.
C2_Terminates ==
    IS_MPI_JOB =>
        <>(\/ SomeSlaveQuit
           \/ /\ pcM = "done"
              /\ \A r \in Slaves : pcS[r] = "returned" /\ inbox[r] = <<>>)

\* A slave that waits for a message while none is in flight to it or from it.
Idle(r) == pcS[r] = "recv" /\ inbox[r] = <<>> /\ outbox[r] = <<>>

\* C3: distributed mode, once seeding is over: no slave is idle while a
\* pipeline is still undispatched, and seeding has given a unit to min(W, N)
\* slaves.
C3_WorkConserving ==
    (IS_MPI_JOB /\ pcM \in {"loop", "wait", "collect", "exit", "done"}) =>
        /\ (queue # <<>> \/ pipe_tuple # <<>>) => \A r \in Slaves : ~Idle(r)
        /\ (pcM = "loop" /\ count = 0) =>
               Len(dispatch_log) = Min(nprocs - 1, Len(pipes))

\* C4: distributed mode: the number of messages sent so far (work, result
\* and exit messages) is at most 2 * N + W.
C4_MessageBound ==
    IS_MPI_JOB => sends <= 2 * Len(pipes) + (nprocs - 1)

\* The bound is met: master() has returned after 2 * N + W messages.
C4_Witness ==
    /\ IS_MPI_JOB /\ pcM = "done"
    /\ Len(pipes) >= 2 /\ nprocs >= 3
    /\ sends = 2 * Len(pipes) + (nprocs - 1)

\* C5: distributed mode: no unit is sent twice, a unit that was sent is
\* never in the queue or in the master's hand again, also after a slave has
\* failed; when master() returns every unit has been sent exactly once.
C5_AtMostOnce ==
    IS_MPI_JOB =>
        /\ \A a, b \in DOMAIN dispatch_log :
               dispatch_log[a].i = dispatch_log[b].i => a = b
        /\ \A a \in DOMAIN dispatch_log :
               /\ \A q \in DOMAIN queue : queue[q][1] # dispatch_log[a].i
               /\ pipe_tuple # <<>> => pipe_tuple[1][1] # dispatch_log[a].i
        /\ pcM = "done" =>
               {dispatch_log[a].i : a \in DOMAIN dispatch_log}
                   = 0..(Len(pipes) - 1)

\* A slave has failed and the master has gone on to send every unit.
C5_Witness ==
    /\ IS_MPI_JOB /\ SomeSlaveQuit
    /\ Len(pipes) >= 3 /\ Len(dispatch_log) = Len(pipes)

\* C6: distributed mode, more pipelines than slaves: in a run where an
\* evaluation raises in one slave only, once it has raised the master still
\* goes on to collect the results, send EXIT and return.
C6_MasterReturnsAfterFailure ==
    [](Cardinality({r \in Slaves : pcS[r] = "quit"}) <= 1)
        => []((/\ SomeSlaveQuit
               /\ \E r \in Slaves : pcS[r] # "quit"
               /\ Len(pipes) > nprocs - 1)
              => <>(pcM = "done"))

\* C7: distributed mode: whatever the order of the answers, the value under
\* 'pipe' + str(i) is the record of the evaluation of the pipeline of index
\* i, so that the returned dictionary depends on the pipeline list alone.
C7_KeyedByIndex ==
    IS_MPI_JOB =>
        /\ \A k \in DOMAIN pipe_dump :
               /\ IndexOfKey(k) >= 0
               /\ pipe_dump[k] = pipe_worker(k, pipes[IndexOfKey(k) + 1],
                                             RaisesAt(IndexOfKey(k)))
        /\ pcM = "done" =>
               pipe_dump = [k \in ExpectedKeys |->
                               pipe_worker(k, pipes[IndexOfKey(k) + 1],
                                           RaisesAt(IndexOfKey(k)))]

\* master() has returned although the second slave answered first: the last
\* unit went to rank 2.
C7_Witness ==
    /\ IS_MPI_JOB /\ pcM = "done" /\ Len(pipes) >= 3
    /\ \E a \in DOMAIN dispatch_log :
           dispatch_log[a].i = 2 /\ dispatch_log[a].dest = 2
    /\ DOMAIN pipe_dump = ExpectedKeys

\* C8: single-process mode: the returned dictionary has the keys 'pipe0' ..
\* 'pipe(N-1)' and under 'pipe' + str(i) the record of the evaluation of the
\* i-th pipeline alone.
C8_SingleMachineResults ==
    (~IS_MPI_JOB /\ pcM = "done") =>
        /\ DOMAIN pipe_dump = ExpectedKeys
        /\ \A i \in 0..(Len(pipes) - 1) :
               pipe_dump[PipeId(i)] =
                   pipe_worker(PipeId(i), pipes[i + 1], RaisesAt(i))

\* The number of options of each stage after expansion and filtering.
K1 == Len(ImputeOptions(steps[1]))

K2 == Len(PreprocOptions(steps[2]))

K3 == Len(DimredOptions(steps[3]))

K4 == Len(ClusteringCalls(steps[4]))

\* The product of the four option lists before the cap.
FullProduct ==
    modified_cartesian_pipes(
        ImputeOptions(steps[1]), PreprocOptions(steps[2]),
        DimredOptions(steps[3]),
        LET calls == ClusteringCalls(steps[4])
        IN  [n \in 1..Len(calls) |->
                Stored(parse_clustering(calls[n][1], calls[n][2]).tpl, "cl", n)])

TruncationWarned ==
    \E n \in DOMAIN log :
        /\ log[n].level = "WARNING"
        /\ log[n].msg = "Maximum number of pipelines reached"

Labels(ps) == [n \in 1..Len(ps) |-> [j \in 1..Len(ps[n]) |-> ps[n][j][1]]]

ClusteringOf(pipe) == pipe[Len(pipe)]

\* The clustering keys of the configuration that are on and carry arguments.
ExpandedEntries ==
    {n \in 1..Len(steps[4]) : steps[4][n].v.flag /\ steps[4][n].v.hasArgs}

\* Every combination of the values listed under a clustering key, as a
\* dictionary, in product order.
Combos(e) ==
    LET dc == e.v.args
        lls == modified_cartesian([n \in 1..Len(dc) |-> ensure_list(dc[n].v)])
    IN  [j \in 1..Len(lls) |-> [n \in 1..Len(dc) |-> KV(dc[n].k, lls[j][n])]]

\* affinity 'manhattan' or 'precomputed' together with linkage 'ward'.
WardPair(kw) ==
    /\ \E n \in 1..Len(kw) :
           kw[n].k = "affinity" /\ kw[n].v \in {"manhattan", "precomputed"}
    /\ \E n \in 1..Len(kw) : kw[n].k = "linkage" /\ kw[n].v = "ward"

\* The object was built from the combination: the selector for 'auto',
\* otherwise an object with every parameter of the combination.
BuiltFrom(obj, single) ==
    IF \E n \in 1..Len(single) : single[n].v = "auto"
    THEN obj.cls = "GridSearchCV"
    ELSE \A n \in 1..Len(single) :
             \E m \in 1..Len(obj.kw) : obj.kw[m] = single[n]

\* C12: in the pipelines parse_steps returns, no clustering object was built
\* with affinity 'manhattan' or 'precomputed' together with linkage 'ward';
\* every other combination of the values listed under a clustering key has
\* its object, and the key has no further objects.
C12_FilterExact ==
    (pcM = "parsed" /\ pipes # <<>>) =>
        /\ \A n \in 1..Len(pipes) : ~WardPair(ClusteringOf(pipes[n])[2].kw)
        /\ \A e \in ExpandedEntries :
               LET key == steps[4][e].k
                   combos == Combos(steps[4][e])
                   kept == {j \in 1..Len(combos) : ~WardPair(combos[j])}
                   objs == {ClusteringOf(pipes[n])[2] :
                              n \in {m \in 1..Len(pipes) :
                                        ClusteringOf(pipes[m])[1] = key}}
               IN  /\ \A j \in kept :
                          \E o \in objs : BuiltFrom(o, combos[j])
                   /\ Cardinality({o.id : o \in objs}) = Cardinality(kept)

\* parse_steps has returned pipelines on the hierarchical key with three
\* affinities and two linkages: 'ward' with 'euclidean' and 'complete' with
\* 'manhattan' and with 'precomputed' are there.
C12_Witness ==
    /\ pcM = "parsed"
    /\ \A a \in {<<"euclidean", "ward">>, <<"manhattan", "complete">>,
                  <<"precomputed", "complete">>} :
           \E n \in 1..Len(pipes) :
               /\ ClusteringOf(pipes[n])[1] = "Hierarchical"
               /\ ClusteringOf(pipes[n])[2].kw =
                      <<KV("affinity", a[1]), KV("linkage", a[2])>>
\* The list each entry of a pipeline was taken from: "i", "pp", "dr", "cl".
Kinds(pipe) == [j \in 1..Len(pipe) |-> pipe[j][2].id[1]]

\* Imputation is switched on in the configuration.
ImputeOn == steps[1].Impute[1]

\* C13 as stated, for a configuration with an option at each of the three
\* mandatory stages: every pipeline returned is one preprocessing, one
\* dimensionality-reduction and one clustering entry, in that order, after
\* exactly one imputation entry when imputation is switched on and after
\* none when it is off.
C13_ShapeByFlag ==
    (pcM = "parsed" /\ K2 >= 1 /\ K3 >= 1 /\ K4 >= 1) =>
        \A n \in 1..Len(pipes) :
            Kinds(pipes[n]) = IF ImputeOn THEN <<"i", "pp", "dr", "cl">>
                                          ELSE <<"pp", "dr", "cl">>

\* C13, amended, for a configuration with an option at each of the three
\* mandatory stages: there is a pipeline, and every pipeline returned is one
\* preprocessing, one dimensionality-reduction and one clustering entry, in
\* that order, after exactly one imputation entry when imputation is
\* switched on with at least one replacement strategy, and after none when
\* it is off or no strategy is listed.
C13_Shape ==
    (pcM = "parsed" /\ K2 >= 1 /\ K3 >= 1 /\ K4 >= 1) =>
        /\ pipes # <<>>
        /\ \A n \in 1..Len(pipes) :
               Kinds(pipes[n]) =
                   IF ImputeOn /\ Len(steps[1].Replacement) >= 1
                   THEN <<"i", "pp", "dr", "cl">>
                   ELSE <<"pp", "dr", "cl">>

\* parse_steps has returned pipelines with imputation on and two strategies:
\* the first pipeline starts with the first strategy, the last with the
\* second.
C13_Witness ==
    /\ pcM = "parsed" /\ ImputeOn /\ Len(steps[1].Replacement) = 2
    /\ Len(pipes) >= 4
    /\ pipes[1][1][1] = "Impute_mean"
    /\ pipes[Len(pipes)][1][1] = "Impute_median"
    /\ Len(pipes[1]) = 4
\* The call of CallSpec has returned or raised.
Returned == ret # NoRet

\* The names a parser compares key.lower() with.
KnownNames(fn) ==
    CASE fn = "parse_preproc" ->
             {"none", "recenter", "standardize", "normalize", "minmax"}
      [] fn = "parse_dimred" ->
             {"none", "pca", "incrementalpca", "randomizedpca", "kernelpca",
              "isomap", "lle", "ltsa", "se", "mds", "tsne"}
      [] fn = "parse_clustering" ->
             {"kmeans", "ap", "ms", "spectral", "hierarchical"}

\* A parser was called with a key it does not know (parse_clustering:
\* without 'auto').
UnknownKeyCall ==
    /\ call.fn \in {"parse_preproc", "parse_dimred", "parse_clustering"}
    /\ Lower(call.key) \notin KnownNames(call.fn)
    /\ call.fn = "parse_clustering" => ~IsAuto(call.content.dict)

\* C14 as stated: a parser called with a key that matches none of its names
\* returns DummyNone under the key as given, does not fail, and logs the
\* degradation at warning level.
C14_UnknownKeyWarned ==
    (Returned /\ UnknownKeyCall) =>
        /\ ret.exc = ""
        /\ ret.value[1] = call.key
        /\ ret.value[2].cls = "DummyNone"
        /\ \E n \in 1..Len(ret.log) : ret.log[n].level = "WARNING"

\* C14, amended: a parser called with a key that matches none of its names
\* returns DummyNone under the key as given and does not fail; it logs
\* nothing.
C14_UnknownKeySilent ==
    (Returned /\ UnknownKeyCall) =>
        /\ ret.exc = ""
        /\ ret.value[1] = call.key
        /\ ret.value[2] = New("DummyNone", <<>>)
        /\ ret.log = <<>>

\* parse_clustering has returned for 'DBSCAN' with a parameter.
C14_Witness ==
    /\ Returned /\ UnknownKeyCall
    /\ call.fn = "parse_clustering" /\ call.key = "DBSCAN"
    /\ call.content.dict # <<>>
    /\ ret.value[2].cls = "DummyNone"
\* C15: for every sample count n and fold count f, the grid returned by
\* _sqrtn_heuristic holds only integers k with 2 <= k <= n/f - 1, has at
\* most 30 elements and is non-decreasing.
C15_GridBounds ==
    (Returned /\ call.fn = "_sqrtn_heuristic") =>
        LET krange == ret.value
        IN  /\ ret.exc = ""
            /\ \A j \in 1..Len(krange) :
                   krange[j] >= 2 /\ (krange[j] + 1) * call.cv <= call._n
            /\ Len(krange) <= 30
            /\ \A j \in 1..(Len(krange) - 1) : krange[j] <= krange[j + 1]
\* The number of distinct labels of the labelling predict returns.
DistinctLabels(estimator) ==
    Cardinality({estimator.predict[j] : j \in 1..Len(estimator.predict)})

\* C16: silhouette_score returns, and what it returns is NaN exactly when
\* the estimator's affinity is 'precomputed' (predict is then not called) or
\* the predicted labelling has fewer than 2 or more than n_samples - 1
\* distinct labels; otherwise it is the silhouette value of the labelling.
C16_NanExactly ==
    (Returned /\ call.fn = "silhouette_score") =>
        LET precomputed == /\ call.estimator.hasAffinity
                           /\ call.estimator.affinity = "precomputed"
            n_labels == DistinctLabels(call.estimator)
        IN  /\ ret.exc = ""
            /\ ret.value = "nan" <=>
                   \/ precomputed
                   \/ n_labels < 2
                   \/ n_labels > call.n_samples - 1
            /\ precomputed => ~ret.predicted
            /\ ret.value # "nan" => ret.value = "sil" /\ ret.predicted

\* Three samples, each with a label of its own, and no precomputed
\* affinity: predict was called and the score is NaN.
C16_Witness ==
    /\ Returned /\ call.fn = "silhouette_score" /\ call.n_samples = 3
    /\ call.estimator.affinity = "euclidean"
    /\ DistinctLabels(call.estimator) = 3
    /\ ret.value = "nan" /\ ret.predicted
\* parse_clustering was called for KMeans with n_clusters == 'auto' or for
\* AP with preference == 'auto'.
AutoCall ==
    /\ call.fn = "parse_clustering"
    /\ \/ /\ Lower(call.key) = "kmeans"
          /\ DictGet(call.content.dict, "n_clusters", "") = "auto"
       \/ /\ Lower(call.key) = "ap"
          /\ DictGet(call.content.dict, "preference", "") = "auto"

\* What parse_clustering returned is a GridSearchCV around the base
\* algorithm of the key.
SelectorReturned ==
    /\ ret.exc = ""
    /\ ret.value[1] = call.key
    /\ ret.value[2].cls = "GridSearchCV"
    /\ ret.value[2].est # <<>>
    /\ ret.value[2].est[1].cls =
           IF Lower(call.key) = "kmeans" THEN "KMeans"
                                         ELSE "AffinityPropagation"

\* The entries of dictionary d whose key is not in `dropped` are all among
\* the keywords the base algorithm was constructed with, and no key of
\* `dropped` is.
BaseBuiltWithout(dropped, d) ==
    LET kw == ret.value[2].est[1].kw
    IN  /\ \A m \in 1..Len(kw) : kw[m].k \notin dropped
        /\ \A n \in 1..Len(d) :
               d[n].k \notin dropped => \E m \in 1..Len(kw) : kw[m] = d[n]

\* C20 as stated: for 'auto', parse_clustering returns the selector around
\* the base algorithm, constructed from the parameter dictionary without
\* its 'auto' entry and with every other parameter as the user gave it.
C20_AutoEntryOnly ==
    (Returned /\ AutoCall) =>
        /\ SelectorReturned
        /\ BaseBuiltWithout(
               {IF Lower(call.key) = "kmeans" THEN "n_clusters"
                                              ELSE "preference"},
               call.content.dict)

\* C20, amended: for 'auto', parse_clustering returns the selector around
\* the base algorithm, constructed from the parameter dictionary without
\* its 'n_clusters' and 'preference' entries, whichever of them is 'auto',
\* and with every other parameter as the user gave it.
C20_AutoSelector ==
    (Returned /\ AutoCall) =>
        /\ SelectorReturned
        /\ BaseBuiltWithout({"n_clusters", "preference"}, call.content.dict)

\* parse_clustering has returned the selector for KMeans with 'auto' and
\* the user's init = 'random', which the base algorithm carries.
C20_Witness ==
    /\ Returned /\ AutoCall /\ call.key = "KMeans"
    /\ DictGet(call.content.dict, "init", "") = "random"
    /\ ret.value[2].cls = "GridSearchCV"
    /\ DictGet(ret.value[2].est[1].kw, "init", "") = "random"
\* The record of a pipeline whose stage number `raising` raised: the stages
\* before it as they ran, that stage and the later ones filled with NaN.
ContainedRecord(pipe, raising) ==
    [dump |-> [j \in 1..Len(pipe) |->
                  IF j < raising THEN StageRecord(pipe[j]) ELSE NanRecord]]

\* C17: when master() has returned, every pipeline with a stage that raised
\* has its record under its id: the evaluator did not raise, the record has
\* the stages before the failing one as they ran and NaN from the failing
\* stage on.
C17_Containment ==
    pcM = "done" =>
        \A i \in 0..(Len(pipes) - 1) :
            RaisesAt(i) > 0 =>
                /\ PipeId(i) \in DOMAIN pipe_dump
                /\ pipe_dump[PipeId(i)] =
                       ContainedRecord(pipes[i + 1], RaisesAt(i))

\* The result artifacts written so far (positions in files).
ResultWrites ==
    {n \in 1..Len(files) : "pipes_dump" \in DOMAIN files[n].content}

\* C18: the result artifact is written at most once, and once when main()
\* has ended in rank 0; when it is written master() has returned, what is
\* written is the dictionary master() returned, and in an MPI job every rank
\* has left master() or slave() and reached the final barrier.
C18_WrittenOnceAtEnd ==
    /\ Cardinality(ResultWrites) <= 1
    /\ phase[0] = "end" => Cardinality(ResultWrites) = 1
    /\ \A n \in ResultWrites :
           /\ pcM = "done"
           /\ PhaseOrder(phase[0]) > PhaseOrder("save")
           /\ files[n].content.pipes_dump = pipe_dump
           /\ IS_MPI_JOB =>
                  /\ count = Len(pipes)
                  /\ \A r \in Slaves :
                         /\ pcS[r] \in {"returned", "quit"}
                         /\ PhaseOrder(phase[r]) >= PhaseOrder("barrier2")
    /\ pcM # "done" => files = <<>>

\* An MPI run with two slaves and three pipelines has ended in rank 0 with
\* the results of the three pipelines written.
C18_Witness ==
    /\ IS_MPI_JOB /\ nprocs >= 3 /\ Len(pipes) >= 3
    /\ phase[0] = "end"
    /\ \E n \in ResultWrites :
           DOMAIN files[n].content.pipes_dump = ExpectedKeys

\* C19: the two artifacts of a run are written with '.pkl.tz' through gzip
\* when config.use_compression is true, and with '.pkl', plain, when it is
\* false or absent: they never differ in suffix or compression.
C19_SameCompression ==
    \A n \in 1..Len(files) :
        LET stem == IF n \in ResultWrites THEN filename ELSE "__data"
        IN  IF use_compression = "True"
            THEN files[n].name = stem \o ".pkl.tz" /\ files[n].gzip
            ELSE files[n].name = stem \o ".pkl" /\ ~files[n].gzip

\* Both artifacts are written, compressed.
C19_Witness ==
    /\ use_compression = "True" /\ Len(files) = 2 /\ phase[0] = "end"
    /\ files[1].gzip /\ files[2].gzip
    /\ files[2].name = "__data.pkl.tz"

\* The identities of the stage objects of a pipeline.
Instances(pipe) == {pipe[j][2].id : j \in 1..Len(pipe)}

\* C21: in the list parse_steps returned, no stage object (imputing,
\* preprocessing, dimensionality reduction or clustering) belongs to two
\* different pipelines.
C21_NoSharedInstance ==
    pcM \in {"parsed", "parsed2"} =>
        \A n, m \in 1..Len(pipes) :
            n # m => Instances(pipes[n]) \cap Instances(pipes[m]) = {}

\* A step that is one call of fit on the selector.
FitStep == call.fn = "fit" /\ call'.fits = call.fits + 1

\* The grid of a fit that got as far as the inherited fit is one the
\* heuristic makes for the fold count the guard left.
GridOfFoldCount(self, n_samples) ==
    \E logscale \in FitLogScales(self.estimator, n_samples, self.cv) :
        self.param_grid.values = sqrtn_heuristic(n_samples, self.cv, logscale)

\* C22: fit halves the fold count (integer division by 2) exactly when
\* n_samples / folds < 5 and leaves it unchanged otherwise; the halving is
\* reported as one warning-level log entry, the guard raises nothing, and
\* the cluster-count grid is built for the fold count after the guard.
C22_GuardWarns ==
    [][FitStep =>
         /\ ret'.at # "guard"
         /\ IF call.n_samples < 5 * call.cv
            THEN /\ call'.cv = call.cv \div 2
                 /\ Len(ret'.log) = 1
                 /\ ret'.log[1].level = "WARNING"
            ELSE /\ call'.cv = call.cv
                 /\ ret'.log = <<>>
         /\ (call.estimator = "KMeans" /\ ret'.at \in {"", "search"}) =>
                GridOfFoldCount(call', call.n_samples)
      ]_vars

\* C22, amended: as C22, with the halving reported as one info-level log
\* entry and the guard raising exactly when the fold count is already 0.
C22_GuardInforms ==
    [][FitStep =>
         /\ ret'.at = "guard" <=> call.cv = 0
         /\ IF call.n_samples < 5 * call.cv
            THEN /\ call'.cv = call.cv \div 2
                 /\ Len(ret'.log) = 1
                 /\ ret'.log[1].level = "INFO"
            ELSE /\ call'.cv = call.cv
                 /\ ret'.log = <<>>
         /\ (call.estimator = "KMeans" /\ ret'.at \in {"", "search"}) =>
                GridOfFoldCount(call', call.n_samples)
      ]_vars

\* The first fit of a KMeans selector on 49 rows halved the 10 folds, said so
\* at info level and went on to search a grid.
C22_Witness ==
    /\ call.fn = "fit" /\ call.estimator = "KMeans" /\ call.n_samples = 49
    /\ call.fits = 1 /\ call.cv = 5
    /\ ret.exc = "" /\ Len(ret.log) = 1 /\ ret.log[1].level = "INFO"
    /\ call.param_grid.values # <<>>

\* C23: for KMeans with n_clusters 'auto' on 150 samples with 10 folds, every
\* candidate of the grid handed to the grid search, and so the cluster count
\* selected, is an integer between 2 and 12.
C23_ScenarioB ==
    (/\ call.fn = "fit" /\ call.estimator = "KMeans"
     /\ call.n_samples = 150 /\ call.fits = 1) =>
        /\ ret.cv = 10
        /\ \A j \in 1..Len(call.param_grid.values) :
               call.param_grid.values[j] \in 2..12
        /\ \A j \in 1..Len(ret.best) : ret.best[j] \in 2..12

\* C28: a selector created with 10 folds has, after any number of fits on
\* the same data, a fold count halved at most once and at least 2, and every
\* fit used the fold count of the first one.
C28_FoldCountStable ==
    call.fn = "fit" =>
        /\ call.cv \in {10, 10 \div 2}
        /\ call.cv >= 2
        /\ call.fits >= 1 =>
               ret.cv = (IF call.n_samples < 5 * 10 THEN 10 \div 2 ELSE 10)

\* The grid a KMeans selector's fit handed to the grid search has a
\* candidate: neither the guard nor the heuristic raised.
GridHasCandidate ==
    /\ ret.at \notin {"guard", "grid"}
    /\ call.param_grid.key = "n_clusters"
    /\ call.param_grid.values # <<>>

\* C29: for data with at least 2 samples and the default 10 folds, the grid
\* that the first fit of a KMeans selector hands to the grid search has at
\* least one candidate.
C29_GridNonEmpty ==
    (/\ call.fn = "fit" /\ call.estimator = "KMeans"
     /\ call.n_samples >= 2 /\ call.fits = 1) =>
        GridHasCandidate

\* C29, amended: for data with at least 15 samples and the default 10 folds,
\* the grid that a fit of a KMeans selector hands to the grid search has at
\* least one candidate.
C29_GridNonEmptyFrom15 ==
    (/\ call.fn = "fit" /\ call.estimator = "KMeans"
     /\ call.n_samples >= 15 /\ call.fits >= 1) =>
        GridHasCandidate

\* The first fit on 15 samples: 5 folds of 3 samples, the one candidate 2.
C29_Witness ==
    /\ call.fn = "fit" /\ call.estimator = "KMeans" /\ call.n_samples = 15
    /\ call.fits = 1 /\ call.cv = 5
    /\ call.param_grid.values = <<2>>
    /\ ret.best = <<2>>

\* A call of parse_clustering with 'auto' under a key that is neither
\* kmeans nor ap.
AutoOutsideCall ==
    /\ call.fn = "parse_clustering"
    /\ IsAuto(call.content.dict)
    /\ Lower(call.key) \notin {"kmeans", "ap"}

\* C24: when n_clusters or preference is 'auto' for a key other than kmeans
\* or ap, parse_clustering logs a warning and returns the pair of the key
\* and a GridSearchCV, without raising.
C24_AutoOutsideReturns ==
    (AutoOutsideCall /\ Returned) =>
        /\ \E n \in 1..Len(ret.log) : ret.log[n].level = "WARNING"
        /\ ret.exc = ""
        /\ ret.value[1] = call.key
        /\ ret.value[2].cls = "GridSearchCV"

\* Rank r has started loading the configuration file (lines 258-265 in a
\* rank other than 0).
WorkerLoadStarted(r) == PhaseOrder(phase[r]) >= PhaseOrder("load2")

\* Rank 0 has finished loading the configuration file (lines 243-250).
CoordinatorLoaded == PhaseOrder(phase[0]) >= PhaseOrder("barrier1")

\* C25: in an MPI job no rank other than 0 starts loading the configuration
\* file before rank 0 has finished loading it.
C25_LoadOrder ==
    IS_MPI_JOB =>
        \A r \in Ranks \ {0} : WorkerLoadStarted(r) => CoordinatorLoaded

\* A worker is loading the configuration while rank 0, which has loaded it,
\* has not yet left the first barrier.
C25_Witness ==
    /\ IS_MPI_JOB
    /\ phase[0] = "barrier1"
    /\ \E r \in Ranks \ {0} : phase[r] = "load2"

\* C30: on the output folder of a finished run, with the compression flag
\* true, false or absent, init_main finds a dump file and the file it hands
\* to main() is the result artifact, never the data artifact, whatever the
\* order of the directory listing.
C30_PicksResultFile ==
    dumpfile # NoDumpfile =>
        /\ dumpfile.pc = "main"
        /\ \E n \in ResultWrites : files[n].name = dumpfile.name

\* The work units sent to slave r and not yet answered: those it has not
\* received yet and the one it received and has sent no result for.
Unanswered(r) ==
    Len(SelectSeq(inbox[r], LAMBDA m : m.tag = DO_WORK))
        + (IF pcS[r] \in {"work", "quit"} THEN 1 ELSE 0)

\* The ranks given a work unit so far.
Dispatched == {dispatch_log[n].dest : n \in 1..Len(dispatch_log)}

\* In this step rank 0 sends a work unit.
WorkSent == Len(dispatch_log') = Len(dispatch_log) + 1

\* In this step rank 0 receives a result from slave r.
ResultReceivedFrom(r) ==
    /\ outbox[r] # <<>>
    /\ outbox'[r] = Tail(outbox[r])
    /\ count' = count + 1

\* C26: every slave has at most one work unit sent to it and not yet
\* answered, and rank 0 sends a work unit only to a slave that was never
\* given one or from which it receives a result in the same step of its
\* loop.
C26_OneOutstanding ==
    /\ [](\A r \in Slaves : Unanswered(r) <= 1)
    /\ [][WorkSent =>
            LET dest == dispatch_log'[Len(dispatch_log')].dest
            IN  /\ dest \in Slaves
                /\ dest \notin Dispatched \/ ResultReceivedFrom(dest)
                /\ Unanswered(dest) = 0
         ]_vars

\* A slave holds the second unit it was given, sent after its first result
\* was received.
C26_Witness ==
    \E r \in Slaves :
        /\ Unanswered(r) = 1
        /\ pcS[r] = "work"
        /\ count >= 1
        /\ Cardinality({n \in 1..Len(dispatch_log) :
                           dispatch_log[n].dest = r}) >= 2

\* The EXIT messages sent so far: those not yet received and those that
\* ended a slave.
ExitsSent ==
    {r \in Slaves :
        \/ pcS[r] = "returned"
        \/ \E n \in 1..Len(inbox[r]) : inbox[r][n].tag = EXIT}

\* C27: once rank 0 has sent an EXIT message the queue is empty and a result
\* has been received for every work unit dispatched, so that no slave that
\* is sent EXIT holds an unanswered unit; when master() has returned no
\* result is in flight or unreceived.
C27_ExitAfterCompletion ==
    /\ ExitsSent # {} =>
           /\ queue = <<>>
           /\ pipe_tuple = <<>>
           /\ count = Len(dispatch_log)
           /\ \A r \in Slaves : Unanswered(r) = 0
    /\ (pcM = "done" /\ IS_MPI_JOB) =>
           /\ count = Len(dispatch_log)
           /\ \A r \in Slaves : outbox[r] = <<>> /\ Unanswered(r) = 0

\* master() has returned in a run with two slaves or more and three units
\* or more, every slave having received its EXIT.
C27_Witness ==
    /\ IS_MPI_JOB /\ nprocs >= 3
    /\ pcM = "done"
    /\ Len(dispatch_log) >= 3
    /\ ExitsSent = Slaves
    /\ \A r \in Slaves : pcS[r] = "returned"
====
